---- MODULE Spec2Model ----
(***************************************************************************)
(* The waterfall component of html5/render/vue/components/scrollable:      *)
(* the column reflow (_reLayoutChildren), the slot classification          *)
(* (_createChildren, _genList, render) and the prop validators.            *)
(*                                                                         *)
(* Column indices are the source's: 0 .. columnCnt - 1.  A column's DOM    *)
(* children are the sequence of the cell ids it holds, first child first.  *)
(***************************************************************************)
EXTENDS Integers, Sequences, FiniteSets

\* ------------------------------------------------------------ bounds ----
MaxItems == 2       \* cells in a generated layout
MaxCols == 2        \* columns in a generated layout
MaxTop == 2         \* measured tops are 0 .. MaxTop
MaxHeight == 2      \* measured heights are 1 .. MaxHeight

\* Number.MAX_SAFE_INTEGER, the start value of minBottom.  The source's value
\* is 2^53 - 1; the model's integers are 32 bits wide, and every measured
\* bottom of the model is far below either number.
MAX_SAFE_INTEGER == 2147483647

\* const DEFAULT_COLUMN_COUNT = 1, the default of the columnCount prop
DEFAULT_COLUMN_COUNT == 1

MaxSlots == 2       \* nodes in this.$slots.default
MaxRenders == 2     \* render passes of one component instance
MaxStrLen == 3      \* characters in a generated prop string
MaxNum == 5         \* generated prop numbers are -MaxNum .. MaxNum

VARIABLES
    _columns,   \* this._columns[i].elm : the cells of column i, in DOM order
    rect,       \* getBoundingClientRect() of every cell: [top, height]
    pass,       \* the locals of the last _reLayoutChildren call
    slots,      \* this.$slots.default of the latest render
    columnCount, \* the columnCount prop
    _refresh, _loading,             \* this._refresh, this._loading
    _headers, _others, _footers,    \* this._headers, ...
    _cells, _listCells,             \* this._cells, this._listCells
    children,   \* the children _createChildren gave the inner element
    renders,    \* render passes so far
    val,        \* the value handed to the prop validators
    valid       \* what each validator answered for val

layoutVars == <<_columns, rect, pass>>
renderVars == <<slots, columnCount, _refresh, _loading, _headers, _others,
                _footers, _cells, _listCells, children, renders>>
propVars == <<val, valid>>
vars == <<layoutVars, renderVars, propVars>>

\* ----------------------------------------------------------- helpers ----
Cols(cols) == DOMAIN cols

RECURSIVE SumHeights(_, _)
SumHeights(s, r) ==
    IF s = <<>> THEN 0 ELSE r[Head(s)].height + SumHeights(Tail(s), r)

\* ------------------------------------------ _reLayoutChildren, step 1 ---
\* lastChild ? lastChild.getBoundingClientRect().bottom : 0
\* (a DOMRect's bottom is its top plus its height)
LastChildBottom(col, r) ==
    IF col = <<>> THEN 0
    ELSE r[col[Len(col)]].top + r[col[Len(col)]].height

MeasureBottoms(cols, r) == [i \in Cols(cols) |-> LastChildBottom(cols[i], r)]

RECURSIVE FindShortest(_, _, _, _, _)
\* the loop of step 1 from column i on: a strictly smaller bottom replaces
\* the minimum, so the first column achieving the minimum is kept
FindShortest(bottoms, i, n, minBottom, minBottomColumnIndex) ==
    IF i >= n THEN [minBottom |-> minBottom,
                    minBottomColumnIndex |-> minBottomColumnIndex]
    ELSE IF bottoms[i] < minBottom
         THEN FindShortest(bottoms, i + 1, n, bottoms[i], i)
         ELSE FindShortest(bottoms, i + 1, n, minBottom, minBottomColumnIndex)

\* ------------------------------------------ _reLayoutChildren, step 2 ---
\* cellRect.top > minBottom
IsBelowBad(top, minBottom) == top >= minBottom
IsBelow(top, minBottom) == top > minBottom

RECURSIVE ScanColumn(_, _, _, _)
\* for (j = len - 1; j >= 0; j--): the ids pushed by one column, last cell
\* first (j here is the 1-based position)
ScanColumn(col, j, r, minBottom) ==
    IF j < 1 THEN <<>>
    ELSE IF IsBelow(r[col[j]].top, minBottom)
         THEN <<col[j]>> \o ScanColumn(col, j - 1, r, minBottom)
         ELSE ScanColumn(col, j - 1, r, minBottom)

\* if (i === minBottomColumnIndex) continue
SkipsColumnBad(i, minBottomColumnIndex) == FALSE
SkipsColumn(i, minBottomColumnIndex) == i = minBottomColumnIndex

BelowOfColumn(cols, i, r, minBottom, minBottomColumnIndex) ==
    IF SkipsColumn(i, minBottomColumnIndex) THEN <<>>
    ELSE ScanColumn(cols[i], Len(cols[i]), r, minBottom)

RECURSIVE CollectBelow(_, _, _, _, _, _)
\* belowCellIds after the loop over the columns i .. n-1
CollectBelow(cols, i, n, r, minBottom, minBottomColumnIndex) ==
    IF i >= n THEN <<>>
    ELSE BelowOfColumn(cols, i, r, minBottom, minBottomColumnIndex)
         \o CollectBelow(cols, i + 1, n, r, minBottom, minBottomColumnIndex)

\* columnBottoms[i] -= cellRect.height, once per id pushed from column i
ProvisionalBottoms(cols, bottoms, r, minBottom, minBottomColumnIndex) ==
    [i \in Cols(cols) |->
        bottoms[i]
        - SumHeights(BelowOfColumn(cols, i, r, minBottom, minBottomColumnIndex), r)]

\* ------------------------------------------ _reLayoutChildren, step 3 ---
RECURSIVE InsertAsc(_, _)
InsertAsc(x, s) ==
    IF s = <<>> THEN <<x>>
    ELSE IF x <= Head(s) THEN <<x>> \o s
         ELSE <<Head(s)>> \o InsertAsc(x, Tail(s))

RECURSIVE SortAsc(_)
SortAsc(s) == IF s = <<>> THEN <<>> ELSE InsertAsc(Head(s), SortAsc(Tail(s)))

\* belowCellIds.sort(function (a, b) { return a > b })
\* The comparator answers true/false, that is 1 or 0 and never a negative
\* number: it is not a consistent comparison function, and the order sort
\* leaves is then implementation-defined.  An insertion sort that moves an
\* element while comparefn(..) > 0 (V8 before 7.0, arrays of up to 10) leaves
\* the ids ascending; a sort that moves an element only while
\* comparefn(..) < 0 (V8 from 7.0 on) leaves the array as it was.
SortOutcomes(ids) == {SortAsc(ids), ids}

\* Math.min(...columnBottoms)
MathMin(bottoms) ==
    CHOOSE m \in {bottoms[i] : i \in DOMAIN bottoms} :
        \A i \in DOMAIN bottoms : m <= bottoms[i]

\* columnBottoms.indexOf(minBottom): the first index holding the value
IndexOfBad(bottoms, v) ==
    CHOOSE i \in DOMAIN bottoms :
        bottoms[i] = v /\ \A j \in DOMAIN bottoms : bottoms[j] = v => j <= i
IndexOf(bottoms, v) ==
    CHOOSE i \in DOMAIN bottoms :
        bottoms[i] = v /\ \A j \in DOMAIN bottoms : bottoms[j] = v => i <= j

\* Node.appendChild moves the node: it leaves the parent it had
Detach(cols, id) ==
    [i \in Cols(cols) |-> SelectSeq(cols[i], LAMBDA x : x # id)]

\* one call of addToShortestColumn on the state st = [doms, frags, bottoms,
\* steps]; steps is the record of the calls made so far
addToShortestColumn(st, id, r) ==
    LET minBottom == MathMin(st.bottoms)
        minBottomColumnIndex == IndexOf(st.bottoms, minBottom)
        cellHeight == r[id].height
        after == [st.bottoms EXCEPT ![minBottomColumnIndex] = @ + cellHeight]
    IN  [doms    |-> Detach(st.doms, id),
         frags   |-> [st.frags EXCEPT ![minBottomColumnIndex] = Append(@, id)],
         bottoms |-> after,
         steps   |-> Append(st.steps,
                            [id |-> id, col |-> minBottomColumnIndex,
                             height |-> cellHeight,
                             before |-> st.bottoms, after |-> after])]

RECURSIVE Rearrange(_, _, _)
\* for (i = 0; i < cellIdsLen; i++) addToShortestColumn(belowCells[belowCellIds[i]])
Rearrange(st, ids, r) ==
    IF ids = <<>> THEN st
    ELSE Rearrange(addToShortestColumn(st, Head(ids), r), Tail(ids), r)

\* for (i = 0; i < columnCnt; i++) columnDoms[i].appendChild(columnAppendFragments[i])
AppendFragmentsBad(doms, frags) ==
    [i \in Cols(doms) |->
        IF i + 1 < Cardinality(Cols(doms)) THEN doms[i] \o frags[i] ELSE doms[i]]
AppendFragments(doms, frags) == [i \in Cols(doms) |-> doms[i] \o frags[i]]

\* The whole pass over the columns cols with the measurements r, the sort
\* leaving belowCellIds in the order `sorted`.
LayoutPass(cols, r, sorted, collected, bottoms, shortest) ==
    LET start == [doms    |-> cols,
                  frags   |-> [i \in Cols(cols) |-> <<>>],
                  bottoms |-> ProvisionalBottoms(cols, bottoms, r,
                                  shortest.minBottom,
                                  shortest.minBottomColumnIndex),
                  steps   |-> <<>>]
        end == Rearrange(start, sorted, r)
    IN  [ran |-> TRUE,
         before |-> cols,
         measured |-> bottoms,
         minBottom |-> shortest.minBottom,
         minBottomColumnIndex |-> shortest.minBottomColumnIndex,
         collected |-> collected,
         belowCellIds |-> sorted,
         provisional |-> start.bottoms,
         columnBottoms |-> end.bottoms,
         columnAppendFragments |-> end.frags,
         steps |-> end.steps,
         result |-> AppendFragments(end.doms, end.frags)]

NoPass ==
    [ran |-> FALSE, before |-> <<>>, measured |-> <<>>, minBottom |-> 0,
     minBottomColumnIndex |-> 0, collected |-> <<>>, belowCellIds |-> <<>>,
     provisional |-> <<>>, columnBottoms |-> <<>>,
     columnAppendFragments |-> <<>>, steps |-> <<>>, result |-> <<>>]

\* ---------------------------------------------------------- the action --
_reLayoutChildren ==
    LET columnCnt == Cardinality(Cols(_columns))
        bottoms == MeasureBottoms(_columns, rect)
        shortest == FindShortest(bottoms, 0, columnCnt, MAX_SAFE_INTEGER, 0)
        collected == CollectBelow(_columns, 0, columnCnt, rect,
                         shortest.minBottom, shortest.minBottomColumnIndex)
    IN  \E sorted \in SortOutcomes(collected) :
            /\ pass' = LayoutPass(_columns, rect, sorted, collected, bottoms, shortest)
            /\ _columns' = pass'.result
            /\ rect' = rect
            /\ UNCHANGED <<renderVars, propVars>>


\* ------------------------------------------------------------ vnodes ----
\* A slot vnode: tag is whether vnode.tag is set, ctag is
\* vnode.componentOptions.tag ("" when there are no componentOptions),
\* dataType is vnode.data.attrs['data-type'] ("" when absent).  uid tells
\* the vnode objects apart: <<render pass, position in the slot list>>.
\* An element made by createElement is a record of its tag name h, its
\* width and its children.
VNode(uid, tag, ctag, dataType) ==
    [uid |-> uid, tag |-> tag, ctag |-> ctag, dataType |-> dataType]

NodeShapes ==
    { [tag |-> FALSE, ctag |-> "", dataType |-> ""],         \* a text vnode
      [tag |-> TRUE, ctag |-> "", dataType |-> ""],          \* a plain element
      [tag |-> TRUE, ctag |-> "refresh", dataType |-> ""],
      [tag |-> TRUE, ctag |-> "loading", dataType |-> ""],
      [tag |-> TRUE, ctag |-> "header", dataType |-> ""],
      [tag |-> TRUE, ctag |-> "header", dataType |-> "footer"],
      [tag |-> TRUE, ctag |-> "cell", dataType |-> ""],
      [tag |-> TRUE, ctag |-> "image", dataType |-> ""] }

\* createElement('html:div', {staticStyle: {width: 100 / columnCnt + '%'}}, kids)
\* width keeps the divisor of 100 / columnCnt (0: no width given)
Element(name, width, kids) == [h |-> name, width |-> width, children |-> kids]

\* ---------------------------------------------------- _createChildren ---
\* the callback of slots.filter on one vnode: st holds this._refresh,
\* this._loading, this._headers, this._footers, this._others and the
\* vnodes the filter has kept
FilterSlot(st, vnode) ==
    IF ~vnode.tag \/ vnode.ctag = "" THEN st
    ELSE IF vnode.ctag = "refresh" THEN [st EXCEPT !.refresh = <<vnode>>]
    ELSE IF vnode.ctag = "loading" THEN [st EXCEPT !.loading = <<vnode>>]
    ELSE IF vnode.ctag = "header"
         THEN IF vnode.dataType = "footer"
              THEN [st EXCEPT !.footers = Append(@, vnode)]
              ELSE [st EXCEPT !.headers = Append(@, vnode)]
    ELSE IF vnode.ctag # "cell" THEN [st EXCEPT !.others = Append(@, vnode)]
    ELSE [st EXCEPT !.cells = Append(@, vnode)]

RECURSIVE FilterSlots(_, _)
FilterSlots(st, s) ==
    IF s = <<>> THEN st ELSE FilterSlots(FilterSlot(st, Head(s)), Tail(s))

\* this._headers = [], this._others = [], this._footers = [] and the filter;
\* this._refresh and this._loading are assigned by the filter alone
ClassifySlots(s, refresh, loading) ==
    FilterSlots([refresh |-> refresh, loading |-> loading, headers |-> <<>>,
                 others |-> <<>>, footers |-> <<>>, cells |-> <<>>], s)

\* _genList: one wrapper per cell, in the order of this._cells
_genList(cells, columnCnt) ==
    [i \in 1 .. Len(cells) |-> Element("html:div", columnCnt, <<cells[i]>>)]

\* the children array of _createChildren
BuildChildrenBad(refresh, headers, others, listCells, footers, loading) ==
    refresh \o headers \o others \o footers
    \o <<Element("html:div", 0, listCells)>> \o loading
BuildChildren(refresh, headers, others, listCells, footers, loading) ==
    refresh \o headers \o others
    \o <<Element("html:div", 0, listCells)>> \o footers \o loading

\* _createChildren on the slot list s of a component that holds refresh and
\* loading: the fields it leaves on the component and the children it gives
_createChildren(s, refresh, loading, columnCnt) ==
    LET st == ClassifySlots(s, refresh, loading)
        listCells == _genList(st.cells, columnCnt)
    IN  [refresh |-> st.refresh, loading |-> st.loading,
         headers |-> st.headers, others |-> st.others,
         footers |-> st.footers, cells |-> st.cells, listCells |-> listCells,
         children |-> BuildChildren(st.refresh, st.headers, st.others,
                                    listCells, st.footers, st.loading)]

\* the slot lists a render pass may be given: the vnodes are new objects
SlotLists(pass_no) ==
    UNION {{[i \in 1 .. n |->
                VNode(<<pass_no, i>>, shapes[i].tag, shapes[i].ctag,
                      shapes[i].dataType)] :
            shapes \in [1 .. n -> NodeShapes]} : n \in 0 .. MaxSlots}

\* render: this._cells = this.$slots.default || [], then _createChildren.
\* (this.$nextTick(updateLayout) and _renderHook belong to the scrollable
\* mixin, which is not part of this file.)
render ==
    /\ renders < MaxRenders
    /\ \E s \in SlotLists(renders + 1) :
         \E out \in {_createChildren(s, _refresh, _loading, columnCount)} :
            /\ slots' = s
            /\ _refresh' = out.refresh
            /\ _loading' = out.loading
            /\ _headers' = out.headers
            /\ _others' = out.others
            /\ _footers' = out.footers
            /\ _cells' = out.cells
            /\ _listCells' = out.listCells
            /\ children' = out.children
    /\ renders' = renders + 1
    /\ UNCHANGED <<columnCount, layoutVars, propVars>>

\* a component instance before its first render
RenderFresh ==
    /\ slots = <<>>
    /\ _refresh = <<>> /\ _loading = <<>>
    /\ _headers = <<>> /\ _others = <<>> /\ _footers = <<>>
    /\ _cells = <<>> /\ _listCells = <<>>
    /\ children = <<>>
    /\ renders = 0

RenderIdle == RenderFresh /\ columnCount = DEFAULT_COLUMN_COUNT

\* ---------------------------------------------------- prop validators ---
\* A prop value (type: [String, Number]): a number n, or a string s given
\* as the sequence of its characters.
Num(n) == [t |-> "number", n |-> n, s |-> <<>>]
Str(s) == [t |-> "string", n |-> 0, s |-> s]

Digits == <<"0", "1", "2", "3", "4", "5", "6", "7", "8", "9">>
DigitValue(c) == (CHOOSE d \in DOMAIN Digits : Digits[d] = c) - 1
IsDigit(c) == \E d \in DOMAIN Digits : Digits[d] = c

RECURSIVE NatToString(_)
NatToString(n) ==
    IF n < 10 THEN <<Digits[n + 1]>>
    ELSE NatToString(n \div 10) \o <<Digits[(n % 10) + 1]>>

\* ToString of an integral Number, of a String the string itself
ToString(v) ==
    IF v.t = "string" THEN v.s
    ELSE IF v.n < 0 THEN <<"-">> \o NatToString(0 - v.n)
    ELSE NatToString(v.n)

RECURSIVE TrimStart(_)
TrimStart(s) ==
    IF s # <<>> /\ Head(s) = " " THEN TrimStart(Tail(s)) ELSE s

RECURSIVE DigitPrefix(_)
DigitPrefix(s) ==
    IF s # <<>> /\ IsDigit(Head(s)) THEN <<Head(s)>> \o DigitPrefix(Tail(s))
    ELSE <<>>

RECURSIVE DigitsValue(_, _)
DigitsValue(s, acc) ==
    IF s = <<>> THEN acc
    ELSE DigitsValue(Tail(s), acc * 10 + DigitValue(Head(s)))

\* parseInt(val), radix 10: leading white space is skipped, a sign is read,
\* then the longest run of digits; NaN when that run is empty.  (The
\* generated strings hold no "x", so the 0x prefix never applies.)
parseInt(v) ==
    LET s == TrimStart(ToString(v))
        neg == s # <<>> /\ Head(s) = "-"
        body == IF s # <<>> /\ Head(s) \in {"-", "+"} THEN Tail(s) ELSE s
        ds == DigitPrefix(body)
    IN  IF ds = <<>> THEN [nan |-> TRUE, n |-> 0]
        ELSE [nan |-> FALSE,
              n |-> IF neg THEN 0 - DigitsValue(ds, 0) ELSE DigitsValue(ds, 0)]

\* !val : 0 and the empty string are falsy
Falsy(v) == IF v.t = "number" THEN v.n = 0 ELSE v.s = <<>>

normal == Str(<<"n", "o", "r", "m", "a", "l">>)
auto == Str(<<"a", "u", "t", "o">>)

\* val = parseInt(val); return !isNaN(val) && val > 0
PositiveInt(v) == ~parseInt(v).nan /\ parseInt(v).n > 0

columnGapValidator(v) ==
    IF Falsy(v) \/ v = normal THEN TRUE ELSE PositiveInt(v)

columnCountValidator(v) == PositiveInt(v)

columnWidthValidator(v) ==
    IF Falsy(v) \/ v = auto THEN TRUE ELSE PositiveInt(v)

Unchecked == "unchecked"
Answer(ok) == IF ok THEN "accepted" ELSE "rejected"

validateColumnGap ==
    /\ valid.columnGap = Unchecked
    /\ valid' = [valid EXCEPT !.columnGap = Answer(columnGapValidator(val))]
    /\ UNCHANGED <<val, layoutVars, renderVars>>

validateColumnCount ==
    /\ valid.columnCount = Unchecked
    /\ valid' = [valid EXCEPT !.columnCount = Answer(columnCountValidator(val))]
    /\ UNCHANGED <<val, layoutVars, renderVars>>

validateColumnWidth ==
    /\ valid.columnWidth = Unchecked
    /\ valid' = [valid EXCEPT !.columnWidth = Answer(columnWidthValidator(val))]
    /\ UNCHANGED <<val, layoutVars, renderVars>>

Chars == {"-", "+", "0", "5", "a", " "}

Strings == UNION {[1 .. n -> Chars] : n \in 0 .. MaxStrLen}

PropValues ==
    {Num(n) : n \in (0 - MaxNum) .. MaxNum}
    \cup {Str(s) : s \in Strings}
    \cup {normal, auto}

NoAnswers ==
    [columnGap |-> Unchecked, columnCount |-> Unchecked, columnWidth |-> Unchecked]

PropsIdle == val = Num(1) /\ valid = NoAnswers

\* ------------------------------------------------------ initial states --
Rects == [top : 0 .. MaxTop, height : 1 .. MaxHeight]

\* k cells with the ids 1 .. k in n columns: every order of the cells, every
\* assignment of the cells to the columns
Layouts(n, k) ==
    LET perms == {p \in [1 .. k -> 1 .. k] : \A a, b \in 1 .. k : p[a] = p[b] => a = b}
    IN  {[i \in 0 .. n - 1 |-> SelectSeq(p, LAMBDA id : c[id] = i)] :
            p \in perms, c \in [1 .. k -> 0 .. n - 1]}

\* the layout of the worked scenario: bottoms [100, 50, 80]
ScenarioColumns == [i \in 0 .. 2 |-> <<<<5, 6, 8>>, <<1>>, <<2, 7>>>>[i + 1]]

ScenarioRect ==
    [id \in {1, 2, 5, 6, 7, 8} |->
        CASE id = 1 -> [top |-> 0, height |-> 50]
          [] id = 2 -> [top |-> 0, height |-> 70]
          [] id = 5 -> [top |-> 60, height |-> 20]
          [] id = 6 -> [top |-> 90, height |-> 30]
          [] id = 7 -> [top |-> 70, height |-> 10]
          [] id = 8 -> [top |-> 40, height |-> 60]]

LayoutIdle == _columns = <<>> /\ rect = <<>> /\ pass = NoPass

InitLayout ==
    /\ pass = NoPass
    /\ RenderIdle
    /\ PropsIdle
    /\ \/ \E n \in 1 .. MaxCols, k \in 0 .. MaxItems :
            /\ _columns \in Layouts(n, k)
            /\ rect \in [1 .. k -> Rects]
       \/ /\ _columns = ScenarioColumns
          /\ rect = ScenarioRect

SpecLayout == InitLayout /\ [][_reLayoutChildren]_vars

InitRender ==
    /\ RenderIdle
    /\ LayoutIdle
    /\ PropsIdle

SpecRender == InitRender /\ [][render]_vars

InitProps ==
    /\ val \in PropValues
    /\ valid = NoAnswers
    /\ LayoutIdle
    /\ RenderIdle

NextProps == validateColumnGap \/ validateColumnCount \/ validateColumnWidth

SpecProps == InitProps /\ [][NextProps]_vars

\* ============================================== properties of the reflow
RECURSIVE Flatten(_, _, _)
\* the cells of columns i .. n-1, one column after the other
Flatten(cols, i, n) ==
    IF i >= n THEN <<>> ELSE cols[i] \o Flatten(cols, i + 1, n)

ItemsOf(cols) == Flatten(cols, 0, Cardinality(DOMAIN cols))

Occurrences(s, x) == Cardinality({k \in DOMAIN s : s[k] = x})

Elems(s) == {s[k] : k \in DOMAIN s}

\* the bottom of a column as the claims state it, and the first column
\* achieving the minimum of the bottoms
BottomOf(cols, r, i) ==
    IF Len(cols[i]) = 0 THEN 0
    ELSE r[cols[i][Len(cols[i])]].top + r[cols[i][Len(cols[i])]].height

ShortestColumn(cols, r) ==
    CHOOSE i \in DOMAIN cols :
        \A j \in DOMAIN cols :
            /\ BottomOf(cols, r, i) <= BottomOf(cols, r, j)
            /\ j < i => BottomOf(cols, r, i) < BottomOf(cols, r, j)

\* the cells the claims call candidates: in a column other than the first
\* shortest one, with a top strictly greater than the minimum bottom
CandidateSet(cols, r) ==
    LET m == ShortestColumn(cols, r)
    IN  {id \in DOMAIN r :
            \E i \in DOMAIN cols :
                /\ i # m
                /\ id \in Elems(cols[i])
                /\ r[id].top > BottomOf(cols, r, m)}

MovedIds == {pass.steps[k].id : k \in DOMAIN pass.steps}

\* C1 (Conservation): at all times every cell is in exactly one column and
\* the columns hold no other id; after a pass every id occurs in the columns
\* as often as it did before the pass, none left in an unappended fragment.
Conservation ==
    /\ \A id \in DOMAIN rect : Occurrences(ItemsOf(_columns), id) = 1
    /\ Elems(ItemsOf(_columns)) \subseteq DOMAIN rect
    /\ pass.ran =>
          \A id \in DOMAIN rect :
              Occurrences(ItemsOf(pass.before), id) = Occurrences(ItemsOf(_columns), id)

\* a pass has moved two cells, one of them into a column it was not in
ConservationWitness ==
    /\ pass.ran
    /\ Len(pass.steps) >= 2
    /\ \E k \in DOMAIN pass.steps :
          pass.steps[k].id \notin Elems(pass.before[pass.steps[k].col])

\* C2 (worked scenario): from the layout with bottoms [100, 50, 80] one pass
\* processes 5, 6, 7 in this order, puts them in the columns 0, 1, 0 and ends
\* with the trackers [80, 80, 70].
ScenarioOutcome ==
    (pass.ran /\ pass.before = ScenarioColumns /\ rect = ScenarioRect) =>
        /\ pass.measured = [i \in 0 .. 2 |-> <<100, 50, 80>>[i + 1]]
        /\ pass.belowCellIds = <<5, 6, 7>>
        /\ [k \in DOMAIN pass.steps |-> pass.steps[k].col] = <<0, 1, 0>>
        /\ pass.columnBottoms = [i \in 0 .. 2 |-> <<80, 80, 70>>[i + 1]]

\* C3 (greedy balance rule): the trackers start from the measured bottoms
\* minus the heights of the cells removed from each column; every cell is
\* appended to the lowest-index column whose tracker is minimal at that
\* moment, and that tracker then grows by the cell's height.
GreedyBalance ==
    pass.ran =>
        /\ pass.provisional =
              [i \in DOMAIN pass.before |->
                  BottomOf(pass.before, rect, i)
                  - SumHeights(SelectSeq(pass.before[i], LAMBDA id : id \in MovedIds),
                               rect)]
        /\ \A k \in DOMAIN pass.steps :
              LET s == pass.steps[k]
              IN  /\ s.before = IF k = 1 THEN pass.provisional
                                ELSE pass.steps[k - 1].after
                  /\ \A j \in DOMAIN s.before :
                        /\ s.before[s.col] <= s.before[j]
                        /\ j < s.col => s.before[j] > s.before[s.col]
                  /\ s.after = [s.before EXCEPT ![s.col] = @ + rect[s.id].height]
                  /\ s.id \in Elems(_columns[s.col])
        /\ pass.columnBottoms =
              IF pass.steps = <<>> THEN pass.provisional
              ELSE pass.steps[Len(pass.steps)].after

\* a cell was assigned while two columns tied for the minimum, and another
\* while the first column was not minimal
GreedyBalanceWitness ==
    /\ pass.ran
    /\ \E k \in DOMAIN pass.steps :
          \E j \in DOMAIN pass.steps[k].before :
              /\ j # pass.steps[k].col
              /\ pass.steps[k].before[j] = pass.steps[k].before[pass.steps[k].col]
    /\ \E k \in DOMAIN pass.steps : pass.steps[k].col # 0

\* no cell outside the first shortest column has its top below its bottom
Balanced(cols, r) == CandidateSet(cols, r) = {}

\* C4 (no-op when balanced): a pass that starts with no candidate, as every
\* pass over one column or over no cells does, moves nothing and leaves
\* every column as it was.
NoOpWhenBalanced ==
    (pass.ran /\ Balanced(pass.before, rect)) =>
        /\ pass.steps = <<>>
        /\ _columns = pass.before

\* a balanced pass over two or more columns, none of them empty
NoOpWhenBalancedWitness ==
    /\ pass.ran
    /\ Balanced(pass.before, rect)
    /\ Cardinality(DOMAIN pass.before) >= 2
    /\ \A i \in DOMAIN pass.before : pass.before[i] # <<>>

\* C5 (candidate selection is exact): the cells a pass detaches and appends
\* again are exactly the candidates; every other cell keeps its column and
\* its place among the cells that stay.
CandidateSelectionExact ==
    pass.ran =>
        /\ Elems(pass.collected) = CandidateSet(pass.before, rect)
        /\ MovedIds = CandidateSet(pass.before, rect)
        /\ \A i \in DOMAIN pass.before :
              SelectSeq(_columns[i], LAMBDA id : id \notin MovedIds)
              = SelectSeq(pass.before[i], LAMBDA id : id \notin MovedIds)

\* a pass moved a cell out of a column and left another cell of that column,
\* whose top is not below the minimum bottom, where it was
CandidateSelectionWitness ==
    /\ pass.ran
    /\ \E i \in DOMAIN pass.before :
          /\ i # ShortestColumn(pass.before, rect)
          /\ \E a, b \in Elems(pass.before[i]) :
                a \in MovedIds /\ b \notin MovedIds /\ b \in Elems(_columns[i])

\* C8 (deterministic order): a pass processes the candidates in strictly
\* ascending id order, so the cells it appends to one column are ascending.
ProcessedAscending ==
    pass.ran =>
        /\ \A k \in 1 .. Len(pass.belowCellIds) - 1 :
              pass.belowCellIds[k] < pass.belowCellIds[k + 1]
        /\ \A i \in DOMAIN pass.columnAppendFragments :
              \A k \in 1 .. Len(pass.columnAppendFragments[i]) - 1 :
                  pass.columnAppendFragments[i][k] < pass.columnAppendFragments[i][k + 1]

\* every column stacks its cells without gaps from the top `origin`
Stacked(cols, r, origin) ==
    \A i \in DOMAIN cols :
        \A k \in DOMAIN cols[i] :
            r[cols[i][k]].top = origin + SumHeights(SubSeq(cols[i], 1, k - 1), r)

\* C9 (tracked bottoms match the truth): when the columns stack their cells
\* from a common origin, the trackers at the end of a pass are the origin
\* plus the heights of the cells each column now holds.
TrackedBottomsTrue ==
    \A origin \in 0 .. MaxTop :
        (/\ pass.ran
         /\ Stacked(pass.before, rect, origin)
         /\ \E i \in DOMAIN pass.before : pass.before[i] # <<>>) =>
            \A i \in DOMAIN _columns :
                pass.columnBottoms[i] = origin + SumHeights(_columns[i], rect)

\* ================================= properties of the slot classification
IsElement(node) == "h" \in DOMAIN node

Tagged(vnode, t) == ~IsElement(vnode) /\ vnode.tag /\ vnode.ctag = t

IsOther(vnode) ==
    vnode.tag /\ vnode.ctag \notin {"", "refresh", "loading", "header", "cell"}

\* C6 (slot classification and ordering): the children are a refresh
\* indicator if the component holds one, the headers, the other component
\* nodes, one grid container, the footers (headers marked data-type=footer)
\* and a loading indicator if the component holds one, each group in input
\* order; the grid holds one wrapper per node tagged 'cell', in input order,
\* and nothing else.
SlotOrder ==
    renders > 0 =>
        LET headers == SelectSeq(slots,
                LAMBDA v : Tagged(v, "header") /\ v.dataType # "footer")
            footers == SelectSeq(slots,
                LAMBDA v : Tagged(v, "header") /\ v.dataType = "footer")
            others == SelectSeq(slots, IsOther)
            cells == SelectSeq(slots, LAMBDA v : Tagged(v, "cell"))
            g == Len(_refresh) + Len(headers) + Len(others) + 1
            grid == children[g]
        IN  /\ Len(_refresh) <= 1 /\ Len(_loading) <= 1
            /\ \A k \in DOMAIN _refresh : Tagged(_refresh[k], "refresh")
            /\ \A k \in DOMAIN _loading : Tagged(_loading[k], "loading")
            /\ Len(children) = g + Len(footers) + Len(_loading)
            /\ SubSeq(children, 1, g - 1) = _refresh \o headers \o others
            /\ SubSeq(children, g + 1, Len(children)) = footers \o _loading
            /\ IsElement(grid) /\ grid.h = "html:div"
            /\ Len(grid.children) = Len(cells)
            /\ \A i \in DOMAIN cells :
                  /\ IsElement(grid.children[i])
                  /\ grid.children[i].h = "html:div"
                  /\ grid.children[i].children = <<cells[i]>>

\* a render whose slots hold a cell before a header: the output has the
\* header first, then the grid with the wrapped cell
SlotOrderWitness ==
    /\ renders > 0
    /\ Len(slots) = 2
    /\ Tagged(slots[1], "cell")
    /\ Tagged(slots[2], "header") /\ slots[2].dataType = ""
    /\ \E g \in DOMAIN children :
          /\ IsElement(children[g])
          /\ Len(children[g].children) = 1
          /\ children[g].children[1].children = <<slots[1]>>
          /\ g > 1 /\ children[g - 1] = slots[2]

\* C10 (classification depends only on the current input): the children
\* hold a refresh (loading) indicator exactly when the latest slots hold a
\* node tagged so, and every vnode among the children is one of the latest
\* slots.
IndicatorsFromLatestRender ==
    renders > 0 =>
        /\ \A t \in {"refresh", "loading"} :
              (\E k \in DOMAIN children : Tagged(children[k], t))
              <=> (\E k \in DOMAIN slots : Tagged(slots[k], t))
        /\ \A k \in DOMAIN children :
              ~IsElement(children[k]) => \E j \in DOMAIN slots : slots[j] = children[k]

\* ======================================= properties of the validators ===
\* "parses to a positive integer": after leading blanks and an optional
\* sign that is not a minus, the value starts with digits not all of them 0
StartsWithPositiveInteger(v) ==
    IF v.t = "number" THEN v.n > 0
    ELSE \E i \in DOMAIN v.s :
            /\ v.s[i] \in {"1", "2", "3", "4", "5", "6", "7", "8", "9"}
            /\ \E p \in 0 .. i - 1, q \in 0 .. i - 1 :
                  /\ q \in {p, p + 1}
                  /\ \A k \in 1 .. p : v.s[k] = " "
                  /\ q = p + 1 => v.s[q] = "+"
                  /\ \A k \in q + 1 .. i - 1 : v.s[k] = "0"

\* C7 (configuration validation): columnCount is accepted exactly when the
\* value parses to a positive integer, columnGap / columnWidth exactly when
\* it is the keyword or parses to a positive integer.
ValidatorsExact ==
    /\ valid.columnCount # Unchecked =>
          (valid.columnCount = "accepted" <=> StartsWithPositiveInteger(val))
    /\ valid.columnGap # Unchecked =>
          (valid.columnGap = "accepted" <=> (val = normal \/ StartsWithPositiveInteger(val)))
    /\ valid.columnWidth # Unchecked =>
          (valid.columnWidth = "accepted" <=> (val = auto \/ StartsWithPositiveInteger(val)))

====
